---- MODULE Spec2Model ----
(***************************************************************************)
(* Warehouse order lifecycle of the API: the replenishment pick engine     *)
(* (routers/replenishment.py) and the putaway / bulk-storage order         *)
(* creation (routers/putaway.py, routers/bulk_storage.py), both running    *)
(* their SQL through database.execute_with_retry.                          *)
(*                                                                         *)
(* The relational store is modelled by its tables.  Every handler is an    *)
(* operator from the tables and the request to the new tables and the      *)
(* response; call number f.call of a handler's execute_with_retry calls    *)
(* may raise error f.error after its retries (f.call = 0: none raises).    *)
(***************************************************************************)
EXTENDS Integers, Sequences, FiniteSets, TLC

VARIABLES
    replen_orders,       \* table replen_orders: ro_id -> [ro_status, destination]
    replen_order_items,  \* table replen_order_items: id -> row
    last,                \* the last pick-engine call: request and response
    before,              \* the two replenishment tables as they were before that call
    kind,                \* the order kind whose pair of tables is followed
    order_rows,          \* table putaway_orders / bulk_storage_orders
    item_rows,           \* table putaway_items / bulk_storage_items
    next_id,             \* the next AUTO_INCREMENT id of the header table
    cascade,             \* does the store delete item rows with their header?
    created,             \* the last CreateOrder call: request and response
    calls,               \* CreateOrder calls in flight: server process -> locals
    retry,               \* the execute_with_retry call in progress
    picks                \* pick-engine calls in flight: server process -> locals

vars == <<replen_orders, replen_order_items, last, before,
          kind, order_rows, item_rows, next_id, cascade, created, calls, retry,
          picks>>

replenVars == <<replen_orders, replen_order_items, last, before>>
createVars == <<kind, order_rows, item_rows, next_id, cascade, created>>
stepVars == <<calls, retry, picks>>

----------------------------------------------------------------------------
(* Bounds and input domains *)

MaxPick == 1      \* small picks tried by RecordPick: 0 .. MaxPick
MaxNotes == 1     \* distinct note texts a RecordPick may carry: 1 .. MaxNotes

NULL == 0         \* SQL NULL / Python None of the note column

\* qty_picked values of the requests: nothing, a partial pick, and 10, which
\* is all that line 1 asks for and more than line 2 asks for
PickQtys == (0 .. MaxPick) \cup {10}
ReqNotes == {NULL} \cup (1 .. MaxNotes)

RoIds == {"RO1", "RO2"}              \* orders in the store
ReqRoIds == RoIds \cup {"RO9"}       \* RO9: no such order
Skus == {"A", "B"}
Racks == {"R1", "R2"}

Unassigned == "Unassigned"
InProcess == "In Process"
Completed == "Completed"
Statuses == {Unassigned, InProcess, Completed}

----------------------------------------------------------------------------
(* The store: the SQL statements of routers/replenishment.py *)

\* SELECT ... FROM replen_orders WHERE ro_id = :ro_id; fetchone()
OrderExists(orders, ro_id) == ro_id \in DOMAIN orders

\* UPDATE replen_orders SET ro_status = :s WHERE ro_id = :ro_id
UpdateStatus_ClearsDestination(orders, ro_id, s) ==
    [r \in DOMAIN orders |->
        IF r = ro_id THEN [orders[r] EXCEPT !.ro_status = s, !.destination = "-"]
        ELSE orders[r]]

UpdateStatus(orders, ro_id, s) ==
    [r \in DOMAIN orders |->
        IF r = ro_id THEN [orders[r] EXCEPT !.ro_status = s] ELSE orders[r]]

\* SELECT ... FROM replen_order_items WHERE ro_id = :ro_id
ItemsOf(items, ro_id) == {i \in DOMAIN items : items[i].ro_id = ro_id}

\* SELECT roi.id, roi.qty, ro.ro_status FROM replen_order_items roi
\* JOIN replen_orders ro ON roi.ro_id = ro.ro_id
\* WHERE roi.ro_id = :ro_id AND roi.sku = :sku AND roi.rack_location = :rack_location
ItemJoin(orders, items, ro_id, sku, rack_location) ==
    {i \in DOMAIN items : /\ items[i].ro_id = ro_id
                          /\ items[i].ro_id \in DOMAIN orders
                          /\ items[i].sku = sku
                          /\ items[i].rack_location = rack_location}

\* UPDATE replen_order_items SET qty_picked = :qty_picked [, note = :note] WHERE id = :item_id
UpdatePicked_Clamped(items, item_id, qty_picked, note) ==
    [i \in DOMAIN items |->
        IF i = item_id
        THEN LET q == IF qty_picked > items[i].qty THEN items[i].qty ELSE qty_picked
             IN  IF note # NULL
                 THEN [items[i] EXCEPT !.qty_picked = q, !.note = note]
                 ELSE [items[i] EXCEPT !.qty_picked = q]
        ELSE items[i]]

UpdatePicked(items, item_id, qty_picked, note) ==
    [i \in DOMAIN items |->
        IF i = item_id
        THEN IF note # NULL
             THEN [items[i] EXCEPT !.qty_picked = qty_picked, !.note = note]
             ELSE [items[i] EXCEPT !.qty_picked = qty_picked]
        ELSE items[i]]

\* variant: the reset clears the note as well
ResetPicked_KeepsPicks(items, ro_id) == items

ResetPicked_ClearsNote(items, ro_id) ==
    [i \in DOMAIN items |->
        IF items[i].ro_id = ro_id
        THEN [items[i] EXCEPT !.qty_picked = 0, !.note = NULL]
        ELSE items[i]]

\* UPDATE replen_order_items SET qty_picked = 0 WHERE ro_id = :ro_id
ResetPicked(items, ro_id) ==
    [i \in DOMAIN items |->
        IF items[i].ro_id = ro_id THEN [items[i] EXCEPT !.qty_picked = 0] ELSE items[i]]

\* SELECT COUNT(*) FROM replen_order_items WHERE ro_id = :ro_id
TotalItems(items, ro_id) == Cardinality(ItemsOf(items, ro_id))

\* variant: a line counts as picked only when all of it was picked
PickedItems_FullyPicked(items, ro_id) ==
    IF ItemsOf(items, ro_id) = {}
    THEN <<>>
    ELSE <<Cardinality({i \in ItemsOf(items, ro_id) : items[i].qty_picked >= items[i].qty})>>

\* SELECT SUM(CASE WHEN qty_picked > 0 THEN 1 ELSE 0 END) ...: SQL's SUM over
\* no rows is NULL (Python None), written <<>>; otherwise <<n>>
PickedItems(items, ro_id) ==
    IF ItemsOf(items, ro_id) = {}
    THEN <<>>
    ELSE <<Cardinality({i \in ItemsOf(items, ro_id) : items[i].qty_picked > 0})>>

----------------------------------------------------------------------------
(* Responses *)

NoItems == <<>>

\* the fields of the JSON bodies that the handlers return
Response(status, code) ==
    [status |-> status, error_code |-> code, ro_status |-> "-",
     status_changed |-> FALSE, items |-> NoItems,
     previous_status |-> "-", new_status |-> "-",
     qty_picked |-> 0, note |-> NULL,
     picked_items |-> 0, total_items |-> 0, message |-> <<>>]

\* raise HTTPException(..., "error_code": code)
ErrorResp(code) == Response("error", code)

\* except Exception as e: error_msg = str(e)
\* raise HTTPException(500, ... "message": f"Server error: {error_msg}",
\*                              "error_code": "SERVER_ERROR")
\* (the message of every other body is fixed text and request fields)
SERVER_ERROR == "SERVER_ERROR"
ServerError(error_msg) ==
    [ErrorResp(SERVER_ERROR) EXCEPT !.message = <<"Server error: ", error_msg>>]

\* str(e) of the errors a store call may raise after its retries
StoreErrors == {"(2013, 'Lost connection to MySQL server during query')",
                "(1205, 'Lock wait timeout exceeded; try restarting transaction')"}
\* str(e) of total_items > None
TypeError == "'>' not supported between instances of 'int' and 'NoneType'"

\* which execute_with_retry call of a handler raises, and with what
NoFault == [call |-> 0, error |-> "-"]

Outcome(orders, items, resp) == [orders |-> orders, items |-> items, resp |-> resp]

----------------------------------------------------------------------------
(* The handlers of routers/replenishment.py.  Their execute_with_retry     *)
(* calls are numbered in code order; call f.call raises f.error.           *)

\* the rows of an order as ro_retrieve_order returns them
ItemsView(items, ro_id) ==
    [i \in ItemsOf(items, ro_id) |->
        [qty_picked |-> items[i].qty_picked, note |-> items[i].note]]

\* variant: every order that is not In Process is moved to In Process
ro_retrieve_order_TouchesAny(orders, items, ro_id, f) ==
    IF f.call = 1
    THEN Outcome(orders, items, ServerError(f.error))
    ELSE IF ~OrderExists(orders, ro_id)
    THEN Outcome(orders, items, ErrorResp("RO_NOT_FOUND"))
    ELSE LET current_status == orders[ro_id].ro_status
             status_changed == current_status # InProcess
             orders2 == IF status_changed
                        THEN UpdateStatus(orders, ro_id, InProcess)
                        ELSE orders
         IN  IF status_changed /\ f.call = 2
             THEN Outcome(orders, items, ServerError(f.error))
             ELSE IF f.call = 3
             THEN Outcome(orders2, items, ServerError(f.error))
             ELSE Outcome(orders2, items,
                      [Response("success", "-") EXCEPT
                          !.ro_status = IF status_changed THEN InProcess ELSE current_status,
                          !.status_changed = status_changed,
                          !.items = ItemsView(items, ro_id)])

\* variant: the response keeps the status that was read
ro_retrieve_order_StaleStatus(orders, items, ro_id, f) ==
    IF f.call = 1
    THEN Outcome(orders, items, ServerError(f.error))
    ELSE IF ~OrderExists(orders, ro_id)
    THEN Outcome(orders, items, ErrorResp("RO_NOT_FOUND"))
    ELSE LET current_status == orders[ro_id].ro_status
             status_changed == current_status = Unassigned
             orders2 == IF status_changed
                        THEN UpdateStatus(orders, ro_id, InProcess)
                        ELSE orders
         IN  IF status_changed /\ f.call = 2
             THEN Outcome(orders, items, ServerError(f.error))
             ELSE IF f.call = 3
             THEN Outcome(orders2, items, ServerError(f.error))
             ELSE Outcome(orders2, items,
                      [Response("success", "-") EXCEPT
                          !.ro_status = current_status,
                          !.status_changed = status_changed,
                          !.items = ItemsView(items, ro_id)])

ro_retrieve_order(orders, items, ro_id, f) ==
    IF f.call = 1
    THEN Outcome(orders, items, ServerError(f.error))
    ELSE IF ~OrderExists(orders, ro_id)
    THEN Outcome(orders, items, ErrorResp("RO_NOT_FOUND"))
    ELSE LET current_status == orders[ro_id].ro_status
             status_changed == current_status = Unassigned
             orders2 == IF status_changed
                        THEN UpdateStatus(orders, ro_id, InProcess)
                        ELSE orders
         IN  IF status_changed /\ f.call = 2
             THEN Outcome(orders, items, ServerError(f.error))
             ELSE IF f.call = 3
             THEN Outcome(orders2, items, ServerError(f.error))
             ELSE Outcome(orders2, items,
                      [Response("success", "-") EXCEPT
                          !.ro_status = IF status_changed THEN InProcess ELSE current_status,
                          !.status_changed = status_changed,
                          !.items = ItemsView(items, ro_id)])

\* variant: no check that the order is already Completed
ro_item_picked_NoCompletedCheck(orders, items, ro_id, sku, rack_location, qty_picked, note, test_insufficient_stock, f) ==
    LET found == ItemJoin(orders, items, ro_id, sku, rack_location)
    IN  IF f.call = 1
        THEN Outcome(orders, items, ServerError(f.error))
        ELSE IF found = {}
        THEN Outcome(orders, items, ErrorResp("ITEM_NOT_FOUND"))
        ELSE LET item_id == CHOOSE i \in found : TRUE
                 ro_status == orders[ro_id].ro_status
                 items2 == UpdatePicked(items, item_id, qty_picked, note)
                 orders2 == IF ro_status = Unassigned
                            THEN UpdateStatus(orders, ro_id, InProcess)
                            ELSE orders
             IN  IF test_insufficient_stock
                 THEN Outcome(orders, items, ErrorResp("INSUFFICIENT_STOCK"))
                 ELSE IF f.call = 2
                 THEN Outcome(orders, items, ServerError(f.error))
                 ELSE IF ro_status = Unassigned /\ f.call = 3
                 THEN Outcome(orders, items2, ServerError(f.error))
                 ELSE IF f.call = 4
                 THEN Outcome(orders2, items2, ServerError(f.error))
                 ELSE Outcome(orders2, items2,
                          [Response("success", "-") EXCEPT
                              !.qty_picked = qty_picked, !.note = note])

\* variant: the completion query decides the status (auto-complete)
ro_item_picked_AutoComplete(orders, items, ro_id, sku, rack_location, qty_picked, note, test_insufficient_stock, f) ==
    LET found == ItemJoin(orders, items, ro_id, sku, rack_location)
    IN  IF f.call = 1
        THEN Outcome(orders, items, ServerError(f.error))
        ELSE IF found = {}
        THEN Outcome(orders, items, ErrorResp("ITEM_NOT_FOUND"))
        ELSE LET item_id == CHOOSE i \in found : TRUE
                 ro_status == orders[ro_id].ro_status
                 items2 == UpdatePicked(items, item_id, qty_picked, note)
                 orders2 == IF TotalItems(items2, ro_id) = PickedItems(items2, ro_id)[1]
                            THEN UpdateStatus(orders, ro_id, Completed)
                            ELSE IF ro_status = Unassigned
                            THEN UpdateStatus(orders, ro_id, InProcess)
                            ELSE orders
             IN  IF ro_status = Completed
                 THEN Outcome(orders, items, ErrorResp("ORDER_ALREADY_COMPLETED"))
                 ELSE IF test_insufficient_stock
                 THEN Outcome(orders, items, ErrorResp("INSUFFICIENT_STOCK"))
                 ELSE IF f.call = 2
                 THEN Outcome(orders, items, ServerError(f.error))
                 ELSE IF ro_status = Unassigned /\ f.call = 3
                 THEN Outcome(orders, items2, ServerError(f.error))
                 ELSE IF f.call = 4
                 THEN Outcome(orders2, items2, ServerError(f.error))
                 ELSE Outcome(orders2, items2,
                          [Response("success", "-") EXCEPT
                              !.qty_picked = qty_picked, !.note = note])

ro_item_picked(orders, items, ro_id, sku, rack_location, qty_picked, note, test_insufficient_stock, f) ==
    LET found == ItemJoin(orders, items, ro_id, sku, rack_location)
    IN  IF f.call = 1
        THEN Outcome(orders, items, ServerError(f.error))
        ELSE IF found = {}
        THEN Outcome(orders, items, ErrorResp("ITEM_NOT_FOUND"))
        ELSE LET item_id == CHOOSE i \in found : TRUE
                 ro_status == orders[ro_id].ro_status
                 items2 == UpdatePicked(items, item_id, qty_picked, note)
                 orders2 == IF ro_status = Unassigned
                            THEN UpdateStatus(orders, ro_id, InProcess)
                            ELSE orders
             IN  IF ro_status = Completed
                 THEN Outcome(orders, items, ErrorResp("ORDER_ALREADY_COMPLETED"))
                 ELSE IF test_insufficient_stock
                 THEN Outcome(orders, items, ErrorResp("INSUFFICIENT_STOCK"))
                 ELSE IF f.call = 2
                 THEN Outcome(orders, items, ServerError(f.error))
                 ELSE IF ro_status = Unassigned /\ f.call = 3
                 THEN Outcome(orders, items2, ServerError(f.error))
                 ELSE IF f.call = 4
                 THEN Outcome(orders2, items2, ServerError(f.error))
                 ELSE Outcome(orders2, items2,
                          [Response("success", "-") EXCEPT
                              !.qty_picked = qty_picked, !.note = note])

\* variant: only a Completed order is refused
ro_pick_cancelled_OnlyCompletedRefused(orders, items, ro_id, f) ==
    IF f.call = 1
    THEN Outcome(orders, items, ServerError(f.error))
    ELSE IF ~OrderExists(orders, ro_id)
    THEN Outcome(orders, items, ErrorResp("RO_NOT_FOUND"))
    ELSE LET current_status == orders[ro_id].ro_status
             orders2 == UpdateStatus(orders, ro_id, Unassigned)
         IN  IF current_status = Completed
             THEN Outcome(orders, items, ErrorResp("INVALID_STATUS_FOR_CANCEL"))
             ELSE IF f.call = 2
             THEN Outcome(orders, items, ServerError(f.error))
             ELSE IF f.call = 3
             THEN Outcome(orders2, items, ServerError(f.error))
             ELSE Outcome(orders2, ResetPicked(items, ro_id),
                      [Response("success", "-") EXCEPT
                          !.previous_status = current_status,
                          !.new_status = Unassigned])

\* without the "if not order_row" test: order_row[1] raises on None
ro_pick_cancelled_NoRowTest(orders, items, ro_id, f) ==
    IF f.call = 1
    THEN Outcome(orders, items, ServerError(f.error))
    ELSE IF ~OrderExists(orders, ro_id)
    THEN Outcome(orders, items, ServerError(TypeError))
    ELSE LET current_status == orders[ro_id].ro_status
             orders2 == UpdateStatus(orders, ro_id, Unassigned)
         IN  IF current_status # InProcess
             THEN Outcome(orders, items, ErrorResp("INVALID_STATUS_FOR_CANCEL"))
             ELSE IF f.call = 2
             THEN Outcome(orders, items, ServerError(f.error))
             ELSE IF f.call = 3
             THEN Outcome(orders2, items, ServerError(f.error))
             ELSE Outcome(orders2, ResetPicked(items, ro_id),
                      [Response("success", "-") EXCEPT
                          !.previous_status = current_status,
                          !.new_status = Unassigned])

ro_pick_cancelled(orders, items, ro_id, f) ==
    IF f.call = 1
    THEN Outcome(orders, items, ServerError(f.error))
    ELSE IF ~OrderExists(orders, ro_id)
    THEN Outcome(orders, items, ErrorResp("RO_NOT_FOUND"))
    ELSE LET current_status == orders[ro_id].ro_status
             orders2 == UpdateStatus(orders, ro_id, Unassigned)
         IN  IF current_status # InProcess
             THEN Outcome(orders, items, ErrorResp("INVALID_STATUS_FOR_CANCEL"))
             ELSE IF f.call = 2
             THEN Outcome(orders, items, ServerError(f.error))
             ELSE IF f.call = 3
             THEN Outcome(orders2, items, ServerError(f.error))
             ELSE Outcome(orders2, ResetPicked(items, ro_id),
                      [Response("success", "-") EXCEPT
                          !.previous_status = current_status,
                          !.new_status = Unassigned])

\* variant: an already Completed order is refused, as ro_item_picked does
ro_complete_RefusesCompleted(orders, items, ro_id, f) ==
    IF f.call = 1
    THEN Outcome(orders, items, ServerError(f.error))
    ELSE IF ~OrderExists(orders, ro_id)
    THEN Outcome(orders, items, ErrorResp("RO_NOT_FOUND"))
    ELSE LET current_status == orders[ro_id].ro_status
             total_items == TotalItems(items, ro_id)
             picked_items == PickedItems(items, ro_id)
         IN  IF current_status = Completed
             THEN Outcome(orders, items, ErrorResp("ORDER_ALREADY_COMPLETED"))
             ELSE IF f.call = 2
             THEN Outcome(orders, items, ServerError(f.error))
             ELSE IF picked_items = <<>>
             THEN Outcome(orders, items, ServerError(f.error))
             ELSE IF total_items > picked_items[1]
             THEN Outcome(orders, items,
                      [Response("warning", "-") EXCEPT
                          !.picked_items = picked_items[1],
                          !.total_items = total_items])
             ELSE IF f.call = 3
             THEN Outcome(orders, items, ServerError(f.error))
             ELSE Outcome(UpdateStatus(orders, ro_id, Completed), items,
                      [Response("success", "-") EXCEPT
                          !.previous_status = current_status,
                          !.new_status = Completed])

ro_complete(orders, items, ro_id, f) ==
    IF f.call = 1
    THEN Outcome(orders, items, ServerError(f.error))
    ELSE IF ~OrderExists(orders, ro_id)
    THEN Outcome(orders, items, ErrorResp("RO_NOT_FOUND"))
    ELSE LET current_status == orders[ro_id].ro_status
             total_items == TotalItems(items, ro_id)
             picked_items == PickedItems(items, ro_id)
         IN  IF current_status = Completed
             THEN Outcome(orders, items, Response("success", "-"))
             ELSE IF f.call = 2
             THEN Outcome(orders, items, ServerError(f.error))
             ELSE IF picked_items = <<>>
             \* total_items > None raises TypeError, caught by except Exception
             THEN Outcome(orders, items, ServerError(TypeError))
             ELSE IF total_items > picked_items[1]
             THEN Outcome(orders, items,
                      [Response("warning", "-") EXCEPT
                          !.picked_items = picked_items[1],
                          !.total_items = total_items])
             ELSE IF f.call = 3
             THEN Outcome(orders, items, ServerError(f.error))
             ELSE Outcome(UpdateStatus(orders, ro_id, Completed), items,
                      [Response("success", "-") EXCEPT
                          !.previous_status = current_status,
                          !.new_status = Completed])

---------------------------------------------------------------------------------------------------------------------------------------------------
(* Order creation: routers/putaway.py and routers/bulk_storage.py.  The    *)
(* two handlers are the same code over their own pair of tables.           *)

MaxItems == 2       \* lines of a CreateOrder request: 1 .. MaxItems
MaxOrderId == 2     \* header ids the store hands out: 1 .. MaxOrderId

Kinds == {"putaway", "bulk_storage"}
Servers == {"s1", "s2"}              \* server processes sharing the store
Keys == {"T1", "T2"}                 \* totes / storage locations
CatalogSkus == <<"A", "B", "C">>

\* the validated request: unique skus, every quantity positive and in range
OrderItems(n) == [i \in 1 .. n |-> [sku |-> CatalogSkus[i], quantity |-> i]]
Orders ==
    {[key |-> k, items |-> OrderItems(n), test_insufficient_stock |-> t] :
        k \in Keys, n \in 1 .. MaxItems, t \in BOOLEAN}

\* What the store does to the calls of one CreateOrder: which call raises
\* after its retries, with which error, and whether the compensating delete
\* raises too.
NoFailure == [fails |-> "none", item |-> 0, error |-> "-", delete_fails |-> FALSE]
StoreRuns(n) ==
    {NoFailure,
     [NoFailure EXCEPT !.fails = "check", !.error = "OperationalError"],
     [NoFailure EXCEPT !.fails = "header", !.error = "OperationalError"]}
    \cup {[fails |-> "item", item |-> k, error |-> "IntegrityError", delete_fails |-> d] :
             k \in 1 .. n, d \in BOOLEAN}
    \cup {[fails |-> "item", item |-> k, error |-> "OperationalError", delete_fails |-> FALSE] :
             k \in 1 .. n}

\* SELECT COUNT(*) FROM <orders> WHERE tote / location = :key
CountKey(orders, key) == Cardinality({o \in orders : o.key = key})

\* DELETE FROM <orders> WHERE id = :id; with ON DELETE CASCADE the item rows go too
DeleteOrder(orders, id) == {o \in orders : o.id # id}
DeleteCascade_Always(items, id, casc) == {r \in items : r.order_id # id}
DeleteCascade(items, id, casc) ==
    IF casc THEN {r \in items : r.order_id # id} ELSE items

\* sum(item.quantity for item in order.items)
RECURSIVE SumQuantity(_, _)
SumQuantity(order_items, i) ==
    IF i > Len(order_items) THEN 0
    ELSE order_items[i].quantity + SumQuantity(order_items, i + 1)

CreateResponse(status, code, order_id, n, total) ==
    [status |-> status, error_code |-> code, order_id |-> order_id,
     items_processed |-> n, total_quantity |-> total]
CreateError(code) == CreateResponse("error", code, 0, 0, 0)

\* the tables after a call, the id the header insert returned (0: no header
\* was inserted) and the response
Tables(orders, items, next, order_id, resp) ==
    [orders |-> orders, items |-> items, next |-> next,
     order_id |-> order_id, resp |-> resp]

\* for item in order.items: try: execute_with_retry(item_query, ...)
\* except IntegrityError: delete the header, raise ITEM_INSERT_FAILED
\* (any other SQLAlchemyError leaves the loop for handle_database_error)
RECURSIVE InsertItems(_, _, _, _, _, _, _, _, _)
InsertItems(orders, items, next, casc, order_id, order_items, i, total, run) ==
    IF i > Len(order_items)
    THEN Tables(orders, items, next, order_id,
                CreateResponse("success", "-", order_id, Len(order_items), total))
    ELSE IF run.fails = "item" /\ run.item = i
    THEN IF run.error = "IntegrityError"
         THEN IF run.delete_fails
              THEN Tables(orders, items, next, order_id, CreateError("ITEM_INSERT_FAILED"))
              ELSE Tables(DeleteOrder(orders, order_id),
                          DeleteCascade(items, order_id, casc), next, order_id,
                          CreateError("ITEM_INSERT_FAILED"))
         ELSE Tables(orders, items, next, order_id, CreateError("DATABASE_ERROR"))
    ELSE InsertItems(orders,
                     items \cup {[order_id |-> order_id, sku |-> order_items[i].sku,
                                  quantity |-> order_items[i].quantity]},
                     next, casc, order_id, order_items, i + 1, total, run)

PutawayMaxTotal == 100000
BulkStorageMaxTotal == 1000000

create_putaway_order_NoDuplicateCheck(orders, items, next, casc, order, run) ==
    IF run.fails = "check"
    THEN Tables(orders, items, next, 0, CreateError("DATABASE_ERROR"))
    ELSE LET total_quantity == SumQuantity(order.items, 1)
             order_id == next
         IN  IF total_quantity > PutawayMaxTotal
             THEN Tables(orders, items, next, 0, CreateError("QUANTITY_EXCEEDED"))
             ELSE IF order.test_insufficient_stock
             THEN Tables(orders, items, next, 0, CreateError("INSUFFICIENT_STOCK"))
             ELSE IF run.fails = "header"
             THEN Tables(orders, items, next, 0, CreateError("DATABASE_ERROR"))
             ELSE InsertItems(orders \cup {[id |-> order_id, key |-> order.key]},
                              items, next + 1, casc, order_id, order.items, 1,
                              total_quantity, run)

create_putaway_order(orders, items, next, casc, order, run) ==
    IF run.fails = "check"
    THEN Tables(orders, items, next, 0, CreateError("DATABASE_ERROR"))
    ELSE IF CountKey(orders, order.key) > 0
    THEN Tables(orders, items, next, 0, CreateError("DUPLICATE_TOTE"))
    ELSE LET total_quantity == SumQuantity(order.items, 1)
             order_id == next
         IN  IF total_quantity > PutawayMaxTotal
             THEN Tables(orders, items, next, 0, CreateError("QUANTITY_EXCEEDED"))
             ELSE IF order.test_insufficient_stock
             THEN Tables(orders, items, next, 0, CreateError("INSUFFICIENT_STOCK"))
             ELSE IF run.fails = "header"
             THEN Tables(orders, items, next, 0, CreateError("DATABASE_ERROR"))
             ELSE InsertItems(orders \cup {[id |-> order_id, key |-> order.key]},
                              items, next + 1, casc, order_id, order.items, 1,
                              total_quantity, run)

create_bulk_storage_NoStockCheck(orders, items, next, casc, order, run) ==
    IF run.fails = "check"
    THEN Tables(orders, items, next, 0, CreateError("DATABASE_ERROR"))
    ELSE IF CountKey(orders, order.key) > 0
    THEN Tables(orders, items, next, 0, CreateError("DUPLICATE_LOCATION"))
    ELSE LET total_quantity == SumQuantity(order.items, 1)
             order_id == next
         IN  IF total_quantity > BulkStorageMaxTotal
             THEN Tables(orders, items, next, 0, CreateError("QUANTITY_EXCEEDED"))
             ELSE IF run.fails = "header"
             THEN Tables(orders, items, next, 0, CreateError("DATABASE_ERROR"))
             ELSE InsertItems(orders \cup {[id |-> order_id, key |-> order.key]},
                              items, next + 1, casc, order_id, order.items, 1,
                              total_quantity, run)

create_bulk_storage(orders, items, next, casc, order, run) ==
    IF run.fails = "check"
    THEN Tables(orders, items, next, 0, CreateError("DATABASE_ERROR"))
    ELSE IF CountKey(orders, order.key) > 0
    THEN Tables(orders, items, next, 0, CreateError("DUPLICATE_LOCATION"))
    ELSE LET total_quantity == SumQuantity(order.items, 1)
             order_id == next
         IN  IF total_quantity > BulkStorageMaxTotal
             THEN Tables(orders, items, next, 0, CreateError("QUANTITY_EXCEEDED"))
             ELSE IF order.test_insufficient_stock
             THEN Tables(orders, items, next, 0, CreateError("INSUFFICIENT_STOCK"))
             ELSE IF run.fails = "header"
             THEN Tables(orders, items, next, 0, CreateError("DATABASE_ERROR"))
             ELSE InsertItems(orders \cup {[id |-> order_id, key |-> order.key]},
                              items, next + 1, casc, order_id, order.items, 1,
                              total_quantity, run)

----------------------------------------------------------------------------
(* Initial states.  The replenishment orders are pre-populated, Unassigned *)
(* and unpicked: either RO1 has two lines and RO2 none, or each has one    *)
(* line, with the same sku and rack.  The creation tables start empty.     *)

\* the last call: the handler, the request fields that select the order and
\* the line, the test flag, and the response body
NoCall ==
    [op |-> "-", ro_id |-> "-", sku |-> "-", rack_location |-> "-",
     test_insufficient_stock |-> FALSE, resp |-> Response("-", "-")]

Line(ro_id, sku, rack_location, qty) ==
    [ro_id |-> ro_id, sku |-> sku, rack_location |-> rack_location,
     qty |-> qty, qty_picked |-> 0, note |-> NULL]

\* the last CreateOrder call: the request, what the store did, the id of the
\* header it inserted (0: none), the response, and the two tables as the
\* call found them
NoCreate ==
    [op |-> "-", order |-> [key |-> "-", items |-> <<>>, test_insufficient_stock |-> FALSE],
     run |-> NoFailure, order_id |-> 0, resp |-> CreateResponse("-", "-", 0, 0, 0),
     found |-> [orders |-> {}, items |-> {}]]

InitReplen ==
    /\ replen_orders = [r \in RoIds |-> [ro_status |-> Unassigned, destination |-> "Staging"]]
    /\ replen_order_items \in
          {<<Line("RO1", "A", "R1", 10), Line("RO1", "B", "R2", 5)>>,
           <<Line("RO1", "A", "R1", 10), Line("RO2", "A", "R1", 5)>>}
    /\ last = NoCall
    /\ before = [orders |-> replen_orders, items |-> replen_order_items]

\* a server process with no CreateOrder call in hand
NoRequest ==
    [pc |-> "idle", order |-> NoCreate.order, count |-> 0, order_id |-> 0, i |-> 0,
     resp |-> CreateResponse("-", "-", 0, 0, 0)]

\* a server process with no pick-engine call in hand; in a call: the
\* request, the row values it has read, and at the end the answer
NoPick ==
    [pc |-> "idle", op |-> "-", ro_id |-> "-", sku |-> "-", rack_location |-> "-",
     qty_picked |-> 0, note |-> NULL, ro_status |-> "-", item_id |-> 0, resp |-> "-"]

\* no execute_with_retry call made yet
NoRetry ==
    [pc |-> "idle", query |-> "-", attempt |-> 0, outcomes |-> <<>>, slept |-> <<>>,
     result |-> "-"]

InitTables ==
    /\ order_rows = {}
    /\ item_rows = {}
    /\ next_id = 1
    /\ created = NoCreate
    /\ calls = [p \in Servers |-> NoRequest]
    /\ retry = NoRetry
    /\ picks = [p \in Servers |-> NoPick]

\* the pick engine runs
Init ==
    /\ InitReplen
    /\ InitTables
    /\ kind = "putaway"
    /\ cascade = FALSE

\* order creation runs, of either kind, on a store with or without cascade
InitCreate ==
    /\ InitTables
    /\ kind \in Kinds
    /\ cascade \in BOOLEAN
    /\ replen_orders = [r \in RoIds |-> [ro_status |-> Unassigned, destination |-> "Staging"]]
    /\ replen_order_items = <<>>
    /\ last = NoCall
    /\ before = [orders |-> replen_orders, items |-> replen_order_items]

-----
(* The pick engine, one call at a time.  F: the store calls that may raise *)

Apply(call, r) ==
    /\ replen_orders' = r.orders
    /\ replen_order_items' = r.items
    /\ last' = [call EXCEPT !.resp = r.resp]
    /\ before' = [orders |-> replen_orders, items |-> replen_order_items]
    /\ UNCHANGED <<createVars, stepVars>>

RetrieveOrderOn(F) ==
    \E ro_id \in ReqRoIds, f \in F :
        Apply([NoCall EXCEPT !.op = "ro_retrieve_order", !.ro_id = ro_id],
              ro_retrieve_order(replen_orders, replen_order_items, ro_id, f))

RecordPickOf(Q, N, F) ==
    \E ro_id \in ReqRoIds, sku \in Skus, rack_location \in Racks,
       qty_picked \in Q, note \in N,
       test_insufficient_stock \in BOOLEAN, f \in F :
        Apply([op |-> "ro_item_picked", ro_id |-> ro_id, sku |-> sku,
               rack_location |-> rack_location,
               test_insufficient_stock |-> test_insufficient_stock,
               resp |-> Response("-", "-")],
              ro_item_picked(replen_orders, replen_order_items, ro_id, sku,
                             rack_location, qty_picked, note,
                             test_insufficient_stock, f))

RecordPickOn(F) == RecordPickOf(PickQtys, ReqNotes, F)

CancelPickingOn(F) ==
    \E ro_id \in ReqRoIds, f \in F :
        Apply([NoCall EXCEPT !.op = "ro_pick_cancelled", !.ro_id = ro_id],
              ro_pick_cancelled(replen_orders, replen_order_items, ro_id, f))

CompleteOrderOn(F) ==
    \E ro_id \in ReqRoIds, f \in F :
        Apply([NoCall EXCEPT !.op = "ro_complete", !.ro_id = ro_id],
              ro_complete(replen_orders, replen_order_items, ro_id, f))

\* the store answers every call
Reliable == {NoFault}
\* any one of the n execute_with_retry calls of a handler may raise
Fallible(n) == {NoFault} \cup [call : 1 .. n, error : StoreErrors]

RetrieveOrder == RetrieveOrderOn(Reliable)
RecordPick == RecordPickOn(Reliable)
CancelPicking == CancelPickingOn(Reliable)
CompleteOrder == CompleteOrderOn(Reliable)

Next == RetrieveOrder \/ RecordPick \/ CancelPicking \/ CompleteOrder

Spec == Init /\ [][Next]_vars

RetrieveOrderFault == RetrieveOrderOn(Fallible(3))
\* over a store that fails, picks of 0 and of one quantity, without a note,
\* are followed
RecordPickFault == RecordPickOf({0, MaxPick}, {NULL}, Fallible(4))
CancelPickingFault == CancelPickingOn(Fallible(3))
CompleteOrderFault == CompleteOrderOn(Fallible(3))

NextFault == RetrieveOrderFault \/ RecordPickFault \/ CancelPickingFault \/ CompleteOrderFault

SpecFault == Init /\ [][NextFault]_vars

----------------------------------------------------------------------------
(* Order creation, one call at a time, over a store that may fail *)

ApplyCreate(op, order, run, r) ==
    /\ order_rows' = r.orders
    /\ item_rows' = r.items
    /\ next_id' = r.next
    /\ created' = [op |-> op, order |-> order, run |-> run,
                   order_id |-> r.order_id, resp |-> r.resp,
                   found |-> [orders |-> order_rows, items |-> item_rows]]
    /\ UNCHANGED <<kind, cascade>>
    /\ UNCHANGED <<replenVars, stepVars>>

CreatePutawayOrder ==
    /\ kind = "putaway"
    /\ next_id <= MaxOrderId
    /\ \E order \in Orders : \E run \in StoreRuns(Len(order.items)) :
          ApplyCreate("create_putaway_order", order, run,
                      create_putaway_order(order_rows, item_rows, next_id, cascade, order, run))

CreateBulkStorage ==
    /\ kind = "bulk_storage"
    /\ next_id <= MaxOrderId
    /\ \E order \in Orders : \E run \in StoreRuns(Len(order.items)) :
          ApplyCreate("create_bulk_storage", order, run,
                      create_bulk_storage(order_rows, item_rows, next_id, cascade, order, run))

NextCreate == CreatePutawayOrder \/ CreateBulkStorage

SpecCreate == InitCreate /\ [][NextCreate]_vars

----------------------------------------------------------------------------
(* Order creation by several server processes over one store.  Every       *)
(* execute_with_retry call opens its own connection and commits, so the    *)
(* store operations of two calls interleave freely; here the store answers *)
(* every call.                                                             *)

SetCall(p, c) ==
    /\ calls' = [calls EXCEPT ![p] = c]
    /\ UNCHANGED <<kind, cascade, created, retry, picks>>
    /\ UNCHANGED replenVars

\* a request reaches the handler of server process p
Receive(p) ==
    /\ calls[p].pc \in {"idle", "done"}
    /\ next_id <= MaxOrderId
    /\ \E order \in Orders :
          SetCall(p, [NoRequest EXCEPT !.pc = "check", !.order = order])
    /\ UNCHANGED <<order_rows, item_rows, next_id>>

\* SELECT COUNT(*) ... WHERE tote / location = :key, then the checks that
\* need no store access: duplicate key, total quantity, stock override
CheckKey(p) ==
    /\ calls[p].pc = "check"
    /\ LET c == calls[p]
           count == CountKey(order_rows, c.order.key)
           Refuse(code) == SetCall(p, [c EXCEPT !.pc = "done", !.count = count,
                                                !.resp = CreateError(code)])
       IN  IF count > 0
           THEN Refuse(IF kind = "putaway" THEN "DUPLICATE_TOTE" ELSE "DUPLICATE_LOCATION")
           ELSE IF SumQuantity(c.order.items, 1) >
                      (IF kind = "putaway" THEN PutawayMaxTotal ELSE BulkStorageMaxTotal)
           THEN Refuse("QUANTITY_EXCEEDED")
           ELSE IF c.order.test_insufficient_stock
           THEN Refuse("INSUFFICIENT_STOCK")
           ELSE SetCall(p, [c EXCEPT !.pc = "header", !.count = count])
    /\ UNCHANGED <<order_rows, item_rows, next_id>>

\* a store that enforces one header row per key (the application assumes none)
InsertHeader_UniqueKey(p) ==
    /\ calls[p].pc = "header"
    /\ IF CountKey(order_rows, calls[p].order.key) > 0
       THEN /\ SetCall(p, [calls[p] EXCEPT !.pc = "done",
                                           !.resp = CreateError("DATABASE_ERROR")])
            /\ UNCHANGED <<order_rows, next_id>>
       ELSE /\ order_rows' = order_rows \cup {[id |-> next_id, key |-> calls[p].order.key]}
            /\ next_id' = next_id + 1
            /\ SetCall(p, [calls[p] EXCEPT !.pc = "items", !.order_id = next_id, !.i = 1])
    /\ UNCHANGED item_rows

\* INSERT INTO <orders> (key, timestamp) ... RETURNING id
InsertHeader(p) ==
    /\ calls[p].pc = "header"
    /\ order_rows' = order_rows \cup {[id |-> next_id, key |-> calls[p].order.key]}
    /\ next_id' = next_id + 1
    /\ SetCall(p, [calls[p] EXCEPT !.pc = "items", !.order_id = next_id, !.i = 1])
    /\ UNCHANGED item_rows

\* INSERT INTO <items> for the next item of the request; after the last one
\* the handler returns success
InsertItem(p) ==
    /\ calls[p].pc = "items"
    /\ LET c == calls[p]
           item == c.order.items[c.i]
           n == Len(c.order.items)
       IN  /\ item_rows' = item_rows \cup {[order_id |-> c.order_id, sku |-> item.sku,
                                             quantity |-> item.quantity]}
           /\ IF c.i < n
              THEN SetCall(p, [c EXCEPT !.i = c.i + 1])
              ELSE SetCall(p, [c EXCEPT !.pc = "done", !.i = c.i + 1,
                                        !.resp = CreateResponse("success", "-", c.order_id, n,
                                                     SumQuantity(c.order.items, 1))])
    /\ UNCHANGED <<order_rows, next_id>>

NextRace ==
    \E p \in Servers : Receive(p) \/ CheckKey(p) \/ InsertHeader(p) \/ InsertItem(p)

SpecRace == InitCreate /\ [][NextRace]_vars

----------------------------------------------------------------------------
(* The pick engine run by several server processes over one store, one     *)
(* execute_with_retry call at a time.  A handler keeps what it has read    *)
(* (ro_status, item_id) in its locals; every call commits on its own and   *)
(* here the store answers every call.  The requests name order RO1, carry  *)
(* no note and do not set test_insufficient_stock.                         *)

RaceRoIds == {"RO1"}
RaceQtys == {0, MaxPick}

SetPick(p, c) ==
    /\ picks' = [picks EXCEPT ![p] = c]
    /\ UNCHANGED <<last, before, calls, retry, createVars>>

Tables0 == UNCHANGED <<replen_orders, replen_order_items>>
Answer(c, resp) == [c EXCEPT !.pc = "done", !.resp = resp]

\* a request reaches one of the four handlers of server process p
Request(p) ==
    /\ picks[p].pc \in {"idle", "done"}
    /\ \/ \E op \in {"ro_retrieve_order", "ro_pick_cancelled", "ro_complete"},
             ro_id \in RaceRoIds :
             SetPick(p, [NoPick EXCEPT !.pc = "read", !.op = op, !.ro_id = ro_id])
       \/ \E ro_id \in RaceRoIds, sku \in Skus, rack_location \in Racks,
             qty_picked \in RaceQtys :
             SetPick(p, [NoPick EXCEPT !.pc = "read", !.op = "ro_item_picked",
                                       !.ro_id = ro_id, !.sku = sku,
                                       !.rack_location = rack_location,
                                       !.qty_picked = qty_picked])
    /\ Tables0

\* ro_retrieve_order: SELECT ... FROM replen_orders WHERE ro_id = :ro_id
RetrieveRead(p) ==
    LET c == picks[p] IN
    /\ c.op = "ro_retrieve_order" /\ c.pc = "read"
    /\ IF ~OrderExists(replen_orders, c.ro_id)
       THEN SetPick(p, Answer(c, "RO_NOT_FOUND"))
       ELSE LET current_status == replen_orders[c.ro_id].ro_status
            IN  SetPick(p, [c EXCEPT !.ro_status = current_status,
                                     !.pc = IF current_status = Unassigned
                                            THEN "status" ELSE "items"])
    /\ Tables0

\* UPDATE replen_orders SET ro_status = 'In Process' WHERE ro_id = :ro_id
RetrieveUpdate(p) ==
    LET c == picks[p] IN
    /\ c.op = "ro_retrieve_order" /\ c.pc = "status"
    /\ replen_orders' = UpdateStatus(replen_orders, c.ro_id, InProcess)
    /\ UNCHANGED replen_order_items
    /\ SetPick(p, [c EXCEPT !.pc = "items"])

\* SELECT ... FROM replen_order_items WHERE ro_id = :ro_id, and the answer
RetrieveItems(p) ==
    LET c == picks[p] IN
    /\ c.op = "ro_retrieve_order" /\ c.pc = "items"
    /\ SetPick(p, Answer(c, "success"))
    /\ Tables0

\* ro_item_picked: the join query, then the tests on what it returned
PickRead(p) ==
    LET c == picks[p]
        found == ItemJoin(replen_orders, replen_order_items, c.ro_id, c.sku,
                          c.rack_location)
    IN
    /\ c.op = "ro_item_picked" /\ c.pc = "read"
    /\ IF found = {}
       THEN SetPick(p, Answer(c, "ITEM_NOT_FOUND"))
       ELSE LET ro_status == replen_orders[c.ro_id].ro_status
            IN  IF ro_status = Completed
                THEN SetPick(p, Answer(c, "ORDER_ALREADY_COMPLETED"))
                ELSE SetPick(p, [c EXCEPT !.pc = "item", !.ro_status = ro_status,
                                          !.item_id = CHOOSE i \in found : TRUE])
    /\ Tables0

\* UPDATE replen_order_items SET qty_picked = :qty_picked [, note = :note]
\* WHERE id = :item_id
PickUpdateItem(p) ==
    LET c == picks[p] IN
    /\ c.op = "ro_item_picked" /\ c.pc = "item"
    /\ replen_order_items' = UpdatePicked(replen_order_items, c.item_id, c.qty_picked, c.note)
    /\ UNCHANGED replen_orders
    /\ SetPick(p, [c EXCEPT !.pc = IF c.ro_status = Unassigned THEN "status" ELSE "count"])

\* if ro_status == 'Unassigned': UPDATE replen_orders SET ro_status = 'In Process'
PickUpdateStatus(p) ==
    LET c == picks[p] IN
    /\ c.op = "ro_item_picked" /\ c.pc = "status"
    /\ replen_orders' = UpdateStatus(replen_orders, c.ro_id, InProcess)
    /\ UNCHANGED replen_order_items
    /\ SetPick(p, [c EXCEPT !.pc = "count"])

\* the informational completion query, and the answer
PickCount(p) ==
    LET c == picks[p] IN
    /\ c.op = "ro_item_picked" /\ c.pc = "count"
    /\ SetPick(p, Answer(c, "success"))
    /\ Tables0

\* ro_pick_cancelled: SELECT the order, then the status test
CancelRead(p) ==
    LET c == picks[p] IN
    /\ c.op = "ro_pick_cancelled" /\ c.pc = "read"
    /\ IF ~OrderExists(replen_orders, c.ro_id)
       THEN SetPick(p, Answer(c, "RO_NOT_FOUND"))
       ELSE LET current_status == replen_orders[c.ro_id].ro_status
            IN  IF current_status # InProcess
                THEN SetPick(p, Answer(c, "INVALID_STATUS_FOR_CANCEL"))
                ELSE SetPick(p, [c EXCEPT !.pc = "status", !.ro_status = current_status])
    /\ Tables0

\* UPDATE replen_orders SET ro_status = 'Unassigned' WHERE ro_id = :ro_id
CancelUpdateStatus(p) ==
    LET c == picks[p] IN
    /\ c.op = "ro_pick_cancelled" /\ c.pc = "status"
    /\ replen_orders' = UpdateStatus(replen_orders, c.ro_id, Unassigned)
    /\ UNCHANGED replen_order_items
    /\ SetPick(p, [c EXCEPT !.pc = "reset"])

\* UPDATE replen_order_items SET qty_picked = 0 WHERE ro_id = :ro_id
CancelReset(p) ==
    LET c == picks[p] IN
    /\ c.op = "ro_pick_cancelled" /\ c.pc = "reset"
    /\ replen_order_items' = ResetPicked(replen_order_items, c.ro_id)
    /\ UNCHANGED replen_orders
    /\ SetPick(p, Answer(c, "success"))

\* ro_complete: SELECT the order, then the Completed test
CompleteRead(p) ==
    LET c == picks[p] IN
    /\ c.op = "ro_complete" /\ c.pc = "read"
    /\ IF ~OrderExists(replen_orders, c.ro_id)
       THEN SetPick(p, Answer(c, "RO_NOT_FOUND"))
       ELSE LET current_status == replen_orders[c.ro_id].ro_status
            IN  IF current_status = Completed
                THEN SetPick(p, Answer(c, "success"))
                ELSE SetPick(p, [c EXCEPT !.pc = "count", !.ro_status = current_status])
    /\ Tables0

\* the COUNT / SUM query, then the test total_items > picked_items
CompleteCount(p) ==
    LET c == picks[p]
        total_items == TotalItems(replen_order_items, c.ro_id)
        picked_items == PickedItems(replen_order_items, c.ro_id)
    IN
    /\ c.op = "ro_complete" /\ c.pc = "count"
    /\ IF picked_items = <<>>
       THEN SetPick(p, Answer(c, SERVER_ERROR))
       ELSE IF total_items > picked_items[1]
       THEN SetPick(p, Answer(c, "warning"))
       ELSE SetPick(p, [c EXCEPT !.pc = "update"])
    /\ Tables0

\* UPDATE replen_orders SET ro_status = 'Completed' WHERE ro_id = :ro_id
CompleteUpdate(p) ==
    LET c == picks[p] IN
    /\ c.op = "ro_complete" /\ c.pc = "update"
    /\ replen_orders' = UpdateStatus(replen_orders, c.ro_id, Completed)
    /\ UNCHANGED replen_order_items
    /\ SetPick(p, Answer(c, "success"))

NextPickRace ==
    \E p \in Servers :
        \/ Request(p)
        \/ RetrieveRead(p) \/ RetrieveUpdate(p) \/ RetrieveItems(p)
        \/ PickRead(p) \/ PickUpdateItem(p) \/ PickUpdateStatus(p) \/ PickCount(p)
        \/ CancelRead(p) \/ CancelUpdateStatus(p) \/ CancelReset(p)
        \/ CompleteRead(p) \/ CompleteCount(p) \/ CompleteUpdate(p)

SpecPickRace == Init /\ [][NextPickRace]_vars

----------------------------------------------------------------------------
(* database.execute_with_retry, one attempt at a time.  retry.outcomes is  *)
(* the list of what the attempts of the call did ("ok" or the error        *)
(* raised), retry.slept the list of time.sleep arguments.                  *)

max_retries == 3
Queries == {"SELECT", "INSERT", "UPDATE", "DELETE"}
\* anything connection.execute, connect or commit may raise is caught by
\* "except Exception"
Exceptions == {"OperationalError", "IntegrityError", "TimeoutError"}

SetRetry(r) ==
    /\ retry' = r
    /\ UNCHANGED <<calls, picks, replenVars, createVars>>

\* execute_with_retry(query, params): the loop starts with attempt = 0
CallRetry ==
    /\ retry.pc \in {"idle", "returned", "raised"}
    /\ \E query \in Queries :
          SetRetry([NoRetry EXCEPT !.pc = "attempt", !.query = query])

\* connection.execute and commit succeed: return result
AttemptSucceeds ==
    /\ retry.pc = "attempt"
    /\ SetRetry([retry EXCEPT !.pc = "returned",
                              !.outcomes = Append(@, "ok"),
                              !.result = "ok"])

\* the attempt raises e, and every further attempt is made at once
AttemptFails_NoSleep ==
    /\ retry.pc = "attempt"
    /\ \E e \in Exceptions :
          IF retry.attempt = max_retries - 1
          THEN SetRetry([retry EXCEPT !.pc = "raised",
                                     !.outcomes = Append(@, e),
                                     !.result = e])
          ELSE SetRetry([retry EXCEPT !.outcomes = Append(@, e),
                                     !.attempt = @ + 1])

\* the attempt raises e: re-raise on the last attempt, else
\* time.sleep(1 * (attempt + 1)) and go round the loop
AttemptFails ==
    /\ retry.pc = "attempt"
    /\ \E e \in Exceptions :
          IF retry.attempt = max_retries - 1
          THEN SetRetry([retry EXCEPT !.pc = "raised",
                                     !.outcomes = Append(@, e),
                                     !.result = e])
          ELSE SetRetry([retry EXCEPT !.outcomes = Append(@, e),
                                     !.slept = Append(@, 1 * (retry.attempt + 1)),
                                     !.attempt = @ + 1])

NextRetry == CallRetry \/ AttemptSucceeds \/ AttemptFails

InitRetry == InitCreate /\ kind = "putaway" /\ cascade = FALSE

\* an attempt in progress comes to its end: connection.execute returns or
\* raises (the pool and the driver time out), and time.sleep returns
SpecRetry ==
    InitRetry /\ [][NextRetry]_vars /\ WF_vars(AttemptSucceeds \/ AttemptFails)

----------------------------------------------------------------------------
(* The service as a whole: a run of the pick engine over its replenishment *)
(* tables, or a run of order creation.  The two groups of handlers share   *)
(* no table; the replenishment item table, which no handler empties or     *)
(* fills, tells the two kinds of run apart.                                *)

InitService == Init \/ InitCreate

PickEngine == replen_order_items # <<>> /\ Next
OrderCreation == replen_order_items = <<>> /\ NextCreate

NextService == PickEngine \/ OrderCreation

SpecService == InitService /\ [][NextService]_vars

----------------------------------------------------------------------------
(* Properties of the pick engine.  `before` holds the tables as the last   *)
(* call found them, so a state predicate over before, last and the tables  *)
(* speaks about every call of every run.                                   *)

StatusBefore(ro_id) == before.orders[ro_id].ro_status
StatusNow(ro_id) == replen_orders[ro_id].ro_status
LinesBefore(ro_id) == {i \in DOMAIN before.items : before.items[i].ro_id = ro_id}
LinesNow(ro_id) == {i \in DOMAIN replen_order_items : replen_order_items[i].ro_id = ro_id}
TablesUnchanged == replen_orders = before.orders /\ replen_order_items = before.items
OnOrder(op) == last.op = op /\ last.ro_id \in RoIds
\* the request of the last ro_item_picked names a line of its order
NamesLine ==
    \E i \in LinesBefore(last.ro_id) :
        /\ before.items[i].sku = last.sku
        /\ before.items[i].rack_location = last.rack_location

\* C1: an order that is Completed before a call (RetrieveOrder, RecordPick,
\* CancelPicking or CompleteOrder, on any order) is Completed after it.
C1_CompletedIsTerminal ==
    \A ro_id \in RoIds : StatusBefore(ro_id) = Completed => StatusNow(ro_id) = Completed

C1_Witness ==
    /\ OnOrder("ro_pick_cancelled")
    /\ StatusBefore(last.ro_id) = Completed
    /\ StatusNow(last.ro_id) = Completed

C3_CancelGuard ==
    OnOrder("ro_pick_cancelled") =>
        /\ StatusBefore(last.ro_id) \in {Unassigned, Completed} =>
              /\ last.resp.status = "error"
              /\ last.resp.error_code = "INVALID_STATUS_FOR_CANCEL"
              /\ TablesUnchanged
        /\ last.resp.status = "success" <=> StatusBefore(last.ro_id) = InProcess

C3_Witness ==
    /\ OnOrder("ro_pick_cancelled")
    /\ StatusBefore(last.ro_id) = Completed
    /\ last.resp.error_code = "INVALID_STATUS_FOR_CANCEL"
    /\ \E i \in LinesNow(last.ro_id) : replen_order_items[i].qty_picked > 0

\* C4: after a successful CancelPicking the order is Unassigned, each of its
\* lines has qty_picked 0, the lines are the lines it had, and every line has
\* the note (and sku, rack and qty) it had.
C4_CancelResets ==
    (OnOrder("ro_pick_cancelled") /\ last.resp.status = "success") =>
        /\ StatusBefore(last.ro_id) = InProcess
        /\ StatusNow(last.ro_id) = Unassigned
        /\ DOMAIN replen_order_items = DOMAIN before.items
        /\ LinesNow(last.ro_id) = LinesBefore(last.ro_id)
        /\ \A i \in LinesNow(last.ro_id) :
              replen_order_items[i] = [before.items[i] EXCEPT !.qty_picked = 0]

C4_Witness ==
    /\ OnOrder("ro_pick_cancelled")
    /\ last.resp.status = "success"
    /\ \E i \in LinesBefore(last.ro_id) :
          /\ before.items[i].qty_picked > 0
          /\ before.items[i].note # NULL
          /\ replen_order_items[i].qty_picked = 0

C6_CompleteWhenTouched ==
    (/\ OnOrder("ro_complete")
     /\ StatusBefore(last.ro_id) # Completed
     /\ LinesBefore(last.ro_id) # {}) =>
        /\ replen_order_items = before.items
        /\ IF \A i \in LinesBefore(last.ro_id) : before.items[i].qty_picked > 0
           THEN /\ last.resp.status = "success"
                /\ StatusNow(last.ro_id) = Completed
           ELSE /\ last.resp.status = "warning"
                /\ replen_orders = before.orders

C6_Witness ==
    /\ OnOrder("ro_complete")
    /\ StatusBefore(last.ro_id) = InProcess
    /\ StatusNow(last.ro_id) = Completed
    /\ \E i \in LinesBefore(last.ro_id) : before.items[i].qty_picked < before.items[i].qty
    /\ \E i \in LinesBefore(last.ro_id) : before.items[i].qty_picked > before.items[i].qty

\* C7: CompleteOrder on a Completed order answers success and leaves both
\* tables as they were.
C7_CompleteIdempotent ==
    (OnOrder("ro_complete") /\ StatusBefore(last.ro_id) = Completed) =>
        /\ last.resp.status = "success"
        /\ last.resp.error_code = "-"
        /\ TablesUnchanged

C7_Witness ==
    /\ OnOrder("ro_complete")
    /\ StatusBefore(last.ro_id) = Completed
    /\ last.resp.status = "success"
    /\ StatusNow(last.ro_id) = Completed

----------------------------------------------------------------------------
(* Properties of order creation *)

HeaderOf(id) == {o \in order_rows : o.id = id}

\* C9: when CreateOrder answers ITEM_INSERT_FAILED, the store holds no header
\* row with the request's key.
C9_NoHeaderAfterItemInsertFailed ==
    created.resp.error_code = "ITEM_INSERT_FAILED" =>
        \A o \in order_rows : o.key # created.order.key

\* C10: after a CreateOrder call that inserted a header, whatever it answered,
\* that header is gone or every line of the request has its item row.
C10_AllOrNothing ==
    created.order_id # 0 =>
        \/ HeaderOf(created.order_id) = {}
        \/ \A i \in 1 .. Len(created.order.items) :
              \E r \in item_rows : /\ r.order_id = created.order_id
                                   /\ r.sku = created.order.items[i].sku

DuplicateKey == {"DUPLICATE_TOTE", "DUPLICATE_LOCATION"}
\* the existence check of the last CreateOrder call was answered by the store
KeyChecked == created.op # "-" /\ created.run.fails # "check"

\* C11: with CreateOrder calls run one after another, a call whose key
\* already has a header row is refused as a duplicate and leaves the header
\* and the item table as it found them, and no key ever has two header rows.
C11_DuplicateKeyRefused ==
    /\ (KeyChecked /\ CountKey(created.found.orders, created.order.key) > 0) =>
          /\ created.resp.error_code \in DuplicateKey
          /\ created.order_id = 0
          /\ order_rows = created.found.orders
          /\ item_rows = created.found.items
    /\ \A key \in Keys : CountKey(order_rows, key) <= 1

\* a second CreateOrder for a key whose first order was stored with its items
C11_Witness ==
    /\ created.resp.error_code \in DuplicateKey
    /\ \E o \in order_rows :
          /\ o.key = created.order.key
          /\ \E r \in item_rows : r.order_id = o.id

\* C12: a CreateOrder call whose existence check found no header for its key
\* (and whose cap and stock checks passed) inserts its header and returns
\* success whatever another call wrote in between; two header rows for one
\* key, both calls successful, is the state C12_Witness.
C12_CheckThenInsert ==
    \A p \in Servers :
        LET c == calls[p] IN
        (c.pc = "done" /\ c.count = 0 /\ c.resp.error_code
              \notin {"QUANTITY_EXCEEDED", "INSUFFICIENT_STOCK"}) =>
            /\ c.resp.status = "success"
            /\ [id |-> c.order_id, key |-> c.order.key] \in order_rows

\* both calls have returned success for the same key: two header rows
C12_Witness ==
    /\ \A p \in Servers : calls[p].pc = "done" /\ calls[p].resp.status = "success"
    /\ calls["s1"].order.key = calls["s2"].order.key
    /\ CountKey(order_rows, calls["s1"].order.key) = 2

INSUFFICIENT_STOCK == "INSUFFICIENT_STOCK"
\* the last CreateOrder call got past the duplicate check and the cap
PassedCreateChecks ==
    /\ KeyChecked
    /\ CountKey(created.found.orders, created.order.key) = 0
    /\ SumQuantity(created.order.items, 1) <=
          (IF created.op = "create_putaway_order" THEN PutawayMaxTotal
                                                  ELSE BulkStorageMaxTotal)
\* the last call was a ro_item_picked that found its line, on an order not Completed
PassedPickChecks ==
    /\ OnOrder("ro_item_picked")
    /\ NamesLine
    /\ StatusBefore(last.ro_id) # Completed

\* C13: once the earlier checks of CreateOrder or of RecordPick have passed,
\* the call answers INSUFFICIENT_STOCK exactly when the request sets
\* test_insufficient_stock, and then it has written nothing.
C13_StockCheckIsTheOverride ==
    /\ PassedCreateChecks =>
          /\ created.resp.error_code = INSUFFICIENT_STOCK
                 <=> created.order.test_insufficient_stock
          /\ created.order.test_insufficient_stock =>
                 /\ created.order_id = 0
                 /\ order_rows = created.found.orders
                 /\ item_rows = created.found.items
    /\ PassedPickChecks =>
          /\ last.resp.error_code = INSUFFICIENT_STOCK <=> last.test_insufficient_stock
          /\ last.test_insufficient_stock => TablesUnchanged

\* a pick with the override set on a line already picked, of an order in process
C13_Witness ==
    /\ PassedPickChecks
    /\ last.resp.error_code = INSUFFICIENT_STOCK
    /\ StatusBefore(last.ro_id) = InProcess
    /\ \E i \in LinesNow(last.ro_id) : replen_order_items[i].qty_picked > 0

\* a CreateOrder with the override set, for a new key, next to a stored order
C13_WitnessCreate ==
    /\ PassedCreateChecks
    /\ created.resp.error_code = INSUFFICIENT_STOCK
    /\ order_rows # {}

\* C14: a successful ro_item_picked leaves the line it names with
\* qty_picked equal to the request's qty_picked (echoed in the response),
\* with the request's note when it carries one and the old note otherwise,
\* and leaves every other line of every order as it was.
C14_PickOverwrites ==
    (OnOrder("ro_item_picked") /\ last.resp.status = "success") =>
        /\ DOMAIN replen_order_items = DOMAIN before.items
        /\ \A i \in DOMAIN before.items :
              LET old == before.items[i]
                  new == replen_order_items[i]
              IN  IF /\ old.ro_id = last.ro_id
                     /\ old.sku = last.sku
                     /\ old.rack_location = last.rack_location
                  THEN new = [old EXCEPT
                                 !.qty_picked = last.resp.qty_picked,
                                 !.note = IF last.resp.note # NULL THEN last.resp.note
                                                                   ELSE old.note]
                  ELSE new = old

\* a pick above the requested quantity, without a note, on a line that had
\* a smaller pick and a note
C14_Witness ==
    /\ OnOrder("ro_item_picked")
    /\ last.resp.status = "success"
    /\ last.resp.note = NULL
    /\ \E i \in DOMAIN before.items :
          /\ before.items[i].ro_id = last.ro_id
          /\ before.items[i].sku = last.sku
          /\ before.items[i].rack_location = last.rack_location
          /\ before.items[i].qty_picked > 0
          /\ before.items[i].note # NULL
          /\ replen_order_items[i].qty_picked > before.items[i].qty
          /\ replen_order_items[i].qty_picked # before.items[i].qty_picked

\* the last call named an order that the store does not hold
MissingOrder == last.op # "-" /\ last.ro_id \notin DOMAIN before.orders

\* C15: ro_item_picked for an ro_id that no order has answers RO_NOT_FOUND
\* (and not ITEM_NOT_FOUND, the answer for an order without such a line).
C15_PickOnMissingOrder ==
    (MissingOrder /\ last.op = "ro_item_picked") =>
        last.resp.error_code = "RO_NOT_FOUND"

\* C16: ro_retrieve_order, ro_pick_cancelled and ro_complete for an ro_id
\* that no order has answer RO_NOT_FOUND and leave both tables as they were.
C16_MissingOrderRefused ==
    (MissingOrder /\ last.op \in {"ro_retrieve_order", "ro_pick_cancelled", "ro_complete"}) =>
        /\ last.resp.status = "error"
        /\ last.resp.error_code = "RO_NOT_FOUND"
        /\ TablesUnchanged

\* a cancel for a missing order while an order with a pick is in process
C16_Witness ==
    /\ MissingOrder
    /\ last.op = "ro_pick_cancelled"
    /\ last.resp.error_code = "RO_NOT_FOUND"
    /\ \E ro_id \in RoIds :
          /\ StatusNow(ro_id) = InProcess
          /\ \E i \in LinesNow(ro_id) : replen_order_items[i].qty_picked > 0

\* the line of order ro_id with the given sku
LineOf(ro_id, sku) ==
    CHOOSE i \in LinesNow(ro_id) : replen_order_items[i].sku = sku
\* order ro_id is Unassigned with exactly the two lines A (10 requested) and
\* B (5 requested), nothing picked
ScenarioStart(ro_id) ==
    /\ StatusNow(ro_id) = Unassigned
    /\ \E a, b \in LinesNow(ro_id) :
          /\ LinesNow(ro_id) = {a, b}
          /\ replen_order_items[a].sku = "A" /\ replen_order_items[a].qty = 10
          /\ replen_order_items[b].sku = "B" /\ replen_order_items[b].qty = 5
          /\ replen_order_items[a].qty_picked = 0
          /\ replen_order_items[b].qty_picked = 0

\* C17: from any state where an order is Unassigned with lines A (10) and
\* B (5) unpicked, the calls retrieve, pick A 10, complete, pick B 1,
\* complete give: In Process; success; a warning with 1 of 2 items picked
\* and the order still In Process; success; success and Completed.
C17_EndToEnd ==
    \A ro_id \in RoIds :
        ScenarioStart(ro_id) =>
            LET rack_a == replen_order_items[LineOf(ro_id, "A")].rack_location
                rack_b == replen_order_items[LineOf(ro_id, "B")].rack_location
                s1 == ro_retrieve_order(replen_orders, replen_order_items, ro_id, NoFault)
                s2 == ro_item_picked(s1.orders, s1.items, ro_id, "A", rack_a, 10, NULL,
                                     FALSE, NoFault)
                s3 == ro_complete(s2.orders, s2.items, ro_id, NoFault)
                s4 == ro_item_picked(s3.orders, s3.items, ro_id, "B", rack_b, 1, NULL,
                                     FALSE, NoFault)
                s5 == ro_complete(s4.orders, s4.items, ro_id, NoFault)
            IN  /\ s1.resp.status = "success"
                /\ s1.orders[ro_id].ro_status = InProcess
                /\ s2.resp.status = "success"
                /\ s2.items[LineOf(ro_id, "A")].qty_picked = 10
                /\ s3.resp.status = "warning"
                /\ s3.resp.picked_items = 1
                /\ s3.resp.total_items = 2
                /\ s3.orders[ro_id].ro_status = InProcess
                /\ s3.items = s2.items
                /\ s4.resp.status = "success"
                /\ s4.items[LineOf(ro_id, "B")].qty_picked = 1
                /\ s5.resp.status = "success"
                /\ s5.orders[ro_id].ro_status = Completed

\* the end of the scenario in a run: the second ro_complete has completed
\* the order with A picked 10 of 10 and B picked 1 of 5
C17_Witness ==
    /\ OnOrder("ro_complete")
    /\ last.resp.status = "success"
    /\ StatusBefore(last.ro_id) = InProcess
    /\ StatusNow(last.ro_id) = Completed
    /\ Cardinality(LinesNow(last.ro_id)) = 2
    /\ replen_order_items[LineOf(last.ro_id, "A")].qty_picked = 10
    /\ replen_order_items[LineOf(last.ro_id, "B")].qty_picked = 1

\* the attempts of the call so far that raised
FailedAttempts == {k \in 1 .. Len(retry.outcomes) : retry.outcomes[k] # "ok"}

\* execute_with_retry makes at most max_retries attempts; only the last
\* attempt made can have succeeded, and then its result is returned; it has
\* slept k seconds after the k-th failed attempt, except after attempt
\* max_retries; it raises only after max_retries failed attempts, and raises
\* the error of the last one
BoundedRetry ==
    /\ Len(retry.outcomes) <= max_retries
    /\ \A k \in 1 .. Len(retry.outcomes) - 1 : retry.outcomes[k] # "ok"
    /\ retry.pc = "attempt" => Len(retry.outcomes) = retry.attempt
                               /\ FailedAttempts = 1 .. Len(retry.outcomes)
    /\ retry.pc = "returned" => /\ retry.outcomes[Len(retry.outcomes)] = "ok"
                                /\ retry.result = "ok"
    /\ retry.pc = "raised" => /\ Len(retry.outcomes) = max_retries
                              /\ FailedAttempts = 1 .. max_retries
                              /\ retry.result = retry.outcomes[max_retries]
    /\ retry.slept = [k \in FailedAttempts \ {max_retries} |-> k]

\* C18: every execute_with_retry call returns or raises, and at every point
\* of it BoundedRetry holds: at most max_retries attempts, the first success
\* returned, sleeps of 1 then 2 seconds between attempts, the last error
\* raised, whatever the query and whatever the attempts raise.
C18_RetryTerminates ==
    /\ []BoundedRetry
    /\ (retry.pc = "attempt") ~> (retry.pc \in {"returned", "raised"})

\* an UPDATE that raised an error on each of its three attempts, a
\* different one on the last, after sleeps of 1 and 2 seconds
C18_Witness ==
    /\ retry.pc = "raised"
    /\ retry.query = "UPDATE"
    /\ retry.slept = <<1, 2>>
    /\ retry.outcomes[1] # retry.outcomes[3]
    /\ retry.result = "IntegrityError"

\* the body's message carries the text
Shows(message, text) == \E k \in DOMAIN message : message[k] = text

\* C19: no response of the pick engine carries the text of a store error.
C19_NoStoreErrorText ==
    \A e \in StoreErrors : ~Shows(last.resp.message, e)

\* C20: a pick-engine call that ends with SERVER_ERROR leaves the order
\* table and the item table as it found them.
C20_FailureChangesNothing ==
    last.resp.error_code = SERVER_ERROR => TablesUnchanged

\* the last call was a ro_pick_cancelled that succeeded
Cancelled == OnOrder("ro_pick_cancelled") /\ last.resp.status = "success"
\* what a ro_retrieve_order of the order of the last call answers now
RetrieveNow == ro_retrieve_order(replen_orders, replen_order_items, last.ro_id, NoFault)
\* every item of the body has qty_picked 0
AllItemsZero(resp) == \A i \in DOMAIN resp.items : resp.items[i].qty_picked = 0

C22_CompleteNeverFails ==
    (OnOrder("ro_complete") /\ StatusBefore(last.ro_id) # Completed) =>
        \/ last.resp.status = "warning"
        \/ last.resp.status = "success" /\ StatusNow(last.ro_id) = Completed

\* C23: an order becomes Completed only from In Process, and ro_complete on
\* an Unassigned order leaves it Unassigned.
C23_CompletedFromInProcess ==
    /\ \A ro_id \in RoIds :
          (StatusNow(ro_id) = Completed /\ StatusBefore(ro_id) # Completed) =>
              StatusBefore(ro_id) = InProcess
    /\ (OnOrder("ro_complete") /\ StatusBefore(last.ro_id) = Unassigned) =>
          StatusNow(last.ro_id) = Unassigned

\* the item rows that reference header id
RowsOf(id) == {r \in item_rows : r.order_id = id}
\* the last CreateOrder call failed on an item insert and its compensating
\* delete went through, on a store without cascade
Compensated ==
    /\ created.resp.error_code = "ITEM_INSERT_FAILED"
    /\ ~created.run.delete_fails
    /\ ~cascade

\* C24: after the compensating delete of a CreateOrder whose k-th item insert
\* failed, on a store without cascade, the header the call inserted is gone
\* and nothing else is: every other header and every item row is still
\* there, among them the k-1 rows of the call's own items, which reference
\* the deleted header.
C24_OnlyHeaderDeleted ==
    Compensated =>
        /\ order_rows = created.found.orders
        /\ HeaderOf(created.order_id) = {}
        /\ created.found.items \subseteq item_rows
        /\ RowsOf(created.order_id) =
              {[order_id |-> created.order_id, sku |-> created.order.items[i].sku,
                quantity |-> created.order.items[i].quantity] :
                   i \in 1 .. created.run.item - 1}
        /\ item_rows = created.found.items \cup RowsOf(created.order_id)

\* the second item failed: one orphan row, next to an order stored before
C24_Witness ==
    /\ Compensated
    /\ created.run.item = 2
    /\ Cardinality(RowsOf(created.order_id)) = 1
    /\ created.found.orders # {}

\* C25: a pick-engine call leaves the set of orders and the set of lines as
\* they were, with every order's destination and every line's ro_id, sku,
\* rack_location and qty; it writes ro_status, qty_picked and note only.
C25_PickEngineFrame ==
    /\ DOMAIN replen_orders = DOMAIN before.orders
    /\ \A r \in DOMAIN before.orders :
          replen_orders[r] = [before.orders[r] EXCEPT !.ro_status = replen_orders[r].ro_status]
    /\ DOMAIN replen_order_items = DOMAIN before.items
    /\ \A i \in DOMAIN before.items :
          replen_order_items[i] =
              [before.items[i] EXCEPT !.qty_picked = replen_order_items[i].qty_picked,
                                      !.note = replen_order_items[i].note]

\* a pick that wrote all three: status, qty_picked and note
C25_Witness ==
    /\ OnOrder("ro_item_picked")
    /\ last.resp.status = "success"
    /\ StatusBefore(last.ro_id) # StatusNow(last.ro_id)
    /\ \E i \in LinesNow(last.ro_id) :
          /\ replen_order_items[i].qty_picked # before.items[i].qty_picked
          /\ replen_order_items[i].note # before.items[i].note

\* C26: between calls, every line of an Unassigned order has qty_picked 0.
C26_UnassignedMeansUnpicked ==
    \A ro_id \in RoIds :
        StatusNow(ro_id) = Unassigned =>
            \A i \in LinesNow(ro_id) : replen_order_items[i].qty_picked = 0

\* an order back to Unassigned by a cancel that reset a pick, and an order
\* left In Process by a pick of 0
C26_Witness ==
    /\ Cancelled
    /\ \E i \in LinesBefore(last.ro_id) : before.items[i].qty_picked > 0
    /\ \E ro_id \in RoIds :
          /\ StatusNow(ro_id) = InProcess
          /\ LinesNow(ro_id) # {}
          /\ \A i \in LinesNow(ro_id) : /\ replen_order_items[i].qty_picked = 0
                                         /\ replen_order_items[i].note # NULL

\* C27: between calls, every line of a Completed order has qty_picked > 0
\* (an order is Completed only through ro_complete: all orders start
\* Unassigned).
C27_CompletedMeansPicked ==
    \A ro_id \in RoIds :
        StatusNow(ro_id) = Completed =>
            \A i \in LinesNow(ro_id) : replen_order_items[i].qty_picked > 0

\* a pick of 0 on a line of a Completed order, refused
C27_Witness ==
    /\ OnOrder("ro_item_picked")
    /\ NamesLine
    /\ StatusNow(last.ro_id) = Completed
    /\ last.resp.error_code = "ORDER_ALREADY_COMPLETED"
    /\ Cardinality(LinesNow(last.ro_id)) = 2

\* no pick-engine call is in flight
Quiet == \A p \in Servers : picks[p].pc \in {"idle", "done"}

\* C28: with the store calls of concurrent pick-engine calls interleaved, no
\* step takes the status of an order away from Completed.
C28_CompletedStaysUnderRace ==
    [][\A ro_id \in RoIds :
          replen_orders[ro_id].ro_status = Completed =>
              replen_orders'[ro_id].ro_status = Completed]_vars

\* C29: with interleaved store calls, once every call has returned, every
\* line of an Unassigned order has qty_picked 0.
C29_ResetHoldsUnderRace ==
    Quiet => C26_UnassignedMeansUnpicked

\* C30: with interleaved store calls, every line of a Completed order has
\* qty_picked > 0.
C30_NoWriteAfterCompleted ==
    \A ro_id \in RoIds :
        StatusNow(ro_id) = Completed =>
            \A i \in LinesNow(ro_id) : replen_order_items[i].qty_picked > 0

====
